---- MODULE Spec2Model ----
(***************************************************************************)
(* PyGamePlayer (src/pygame_player.py): a session controller that          *)
(* intercepts five pygame entry points, feeds frames to an agent and       *)
(* synthesises keyboard events and a fixed-rate clock.                     *)
(***************************************************************************)
EXTENDS Integers, Sequences, FiniteSets, TLC

(* ---------------------------- bounds ----------------------------------- *)
MaxFrames == 3      \* completed frame-handler invocations per controller
MaxKeys == 2        \* longest key sequence returned by get_keys_pressed
MaxFilters == 2     \* most type filters passed to one poll
MaxScopes == 2      \* deepest nesting of with-blocks
MaxNesting == 2     \* most wrappers stacked on one slot

(* ------------------ Python floats (IEEE-754 binary64) ------------------ *)
(* A float >= 0 is [hi, lo, e]: the 53-bit significand hi * 2^27 + lo with *)
(* 2^25 <= hi < 2^26 and lo < 2^27, and e the exponent of its last bit;    *)
(* zero has hi = lo = 0.  Every operation rounds to nearest, ties to even, *)
(* as Python's float arithmetic does.  Wider intermediate values are three *)
(* limbs <<w2, w1, w0>> in base 2^27.                                      *)
Limb == 2^27
HiMin == 2^25
HiMax == 2^26

FZero == [hi |-> 0, lo |-> 0, e |-> 0]

\* number of binary digits of the natural n (n < 2^30)
BitLen(n) == CHOOSE k \in 0..30 : 2^k > n /\ (k = 0 \/ 2^(k - 1) <= n)

Min(a, b) == IF a < b THEN a ELSE b

RECURSIVE PowMod2(_, _)
\* 2^j modulo d (d < 2^15)
PowMod2(j, d) ==
    IF j = 0 THEN 1 % d
    ELSE LET h == PowMod2(j \div 2, d)
         IN  (h * h * (IF j % 2 = 1 THEN 2 ELSE 1)) % d

\* long division of r by d (r < d < 2^15): the remainder after j fraction
\* digits, and the value of the c fraction digits after the first j
DivRem(r, d, j) == (r * PowMod2(j, d)) % d
Digits13(r, d, j, c) == (DivRem(r, d, j) * 2^c) \div d                 \* c <= 13
Digits(r, d, j, c) ==                                                   \* c <= 27
    LET c1 == Min(c, 13)
        c2 == Min(c - c1, 13)
        c3 == c - c1 - c2
    IN  (Digits13(r, d, j, c1) * 2^c2 + Digits13(r, d, j + c1, c2)) * 2^c3
        + Digits13(r, d, j + c1 + c2, c3)

\* the float [hi, lo, e] rounded away from zero by one unit in the last place
NextUp(hi, lo, e) ==
    IF lo + 1 < Limb THEN [hi |-> hi, lo |-> lo + 1, e |-> e]
    ELSE IF hi + 1 < HiMax THEN [hi |-> hi + 1, lo |-> 0, e |-> e]
    ELSE [hi |-> HiMin, lo |-> 0, e |-> e + 1]

\* float(n) / d for naturals 0 < n < 2^30 and 0 < d < 2^15 with n \div d < 2^26:
\* the quotient's first 53 significant digits, rounded on the remainder
FDivPos(n, d) ==
    LET q     == n \div d
        r     == n % d
        len   == BitLen(q)
        \* fraction digits that come before the first significant one
        skip  == IF q > 0 THEN 0
                 ELSE (CHOOSE i \in 1..30 : r * 2^i >= d /\ r * 2^(i - 1) < d) - 1
        nhi   == 26 - len                       \* fraction digits in hi
        hi    == q * 2^nhi + Digits(r, d, skip, nhi)
        lo    == Digits(r, d, skip + nhi, 27)
        k     == skip + nhi + 27
        rem   == DivRem(r, d, k)
        up    == 2 * rem > d \/ (2 * rem = d /\ lo % 2 = 1)
    IN  IF up THEN NextUp(hi, lo, -k) ELSE [hi |-> hi, lo |-> lo, e |-> -k]

FDiv(n, d) == IF n = 0 THEN FZero ELSE FDivPos(n, d)

\* w shifted right by d binary places; sticky tells a nonzero digit was dropped
ShiftRight(w, d) ==
    LET L(i) == IF i <= 2 THEN w[3 - i] ELSE 0         \* limb i, 0 the lowest
        q    == d \div 27
        r    == d % 27
        N(i) == (L(i + q) \div 2^r) + (L(i + q + 1) % 2^r) * 2^(27 - r)
    IN  [w      |-> <<N(2), N(1), N(0)>>,
         sticky |-> (\E i \in 0..2 : i < q /\ L(i) # 0) \/ L(q) % 2^r # 0]

\* the lowest digit of w set when sticky
OrSticky(s) ==
    IF s.sticky /\ s.w[3] % 2 = 0 THEN <<s.w[1], s.w[2], s.w[3] + 1>> ELSE s.w

AddWide(x, y) ==
    LET s0 == x[3] + y[3]
        s1 == x[2] + y[2] + s0 \div Limb
        s2 == x[1] + y[1] + s1 \div Limb
    IN  <<s2, s1 % Limb, s0 % Limb>>

\* the significand with three more digits (guard, round, sticky) on its right
Times8(a) ==
    LET l == a.lo * 8
        h == a.hi * 8 + l \div Limb
    IN  <<h \div Limb, h % Limb, l % Limb>>

\* x + y for floats with x.e >= y.e, both positive
FAddOrdered(x, y) ==
    LET d    == x.e - y.e
        ys   == IF d > 60 THEN <<0, 0, 1>> ELSE OrSticky(ShiftRight(Times8(y), d))
        sum  == AddWide(Times8(x), ys)                   \* in units of 2^(x.e - 3)
        over == sum[1] >= 4                              \* 57 digits: sum >= 2^56
        s    == IF over THEN OrSticky(ShiftRight(sum, 1)) ELSE sum
        e    == IF over THEN x.e + 1 ELSE x.e
        m    == ShiftRight(s, 3).w
        grs  == s[3] % 8
        up   == grs > 4 \/ (grs = 4 /\ m[3] % 2 = 1)
    IN  IF up THEN NextUp(m[2], m[3], e) ELSE [hi |-> m[2], lo |-> m[3], e |-> e]

IsZero(a) == a.hi = 0 /\ a.lo = 0

FAdd(a, b) ==
    IF IsZero(a) THEN b
    ELSE IF IsZero(b) THEN a
    ELSE IF a.e >= b.e THEN FAddOrdered(a, b) ELSE FAddOrdered(b, a)

(* ------------------------------ values --------------------------------- *)
Controllers == {"A", "B"}

\* pygame.display.flip, pygame.display.update, pygame.event.get,
\* pygame.time.Clock, pygame.time.get_ticks
Slots == {"flip", "update", "event_get", "Clock", "get_ticks"}

QUIT == "QUIT"
KEYDOWN == "KEYDOWN"
KEYUP == "KEYUP"
OtherType == "MOUSEMOTION"                 \* a type the handler does not name
FilterTypes == {QUIT, KEYDOWN, KEYUP, OtherType}

Keys == {1, 2, 3}                          \* key identifiers
FpsValues == {9, 10, 16}                   \* desired_fps given to the constructor
Feedbacks == {0, 1}                        \* values a get_feedback override returns

RECURSIVE SeqsUpTo(_, _)
SeqsUpTo(S, n) ==
    IF n = 0 THEN {<<>>}
    ELSE LET shorter == SeqsUpTo(S, n - 1)
         IN  shorter \cup {Append(q, x) : q \in shorter, x \in S}

KeySeqs == SeqsUpTo(Keys, MaxKeys)

None == [kind |-> "None"]
Float(x) == [kind |-> "float", v |-> x]
List(items) == [kind |-> "list", items |-> items]
Rect == [kind |-> "Rect"]
Surface == [kind |-> "array3d"]            \* pygame.surfarray.array3d(...)
RealClock == [kind |-> "Clock"]            \* what the library's Clock() returns
WallTicks == [kind |-> "int"]              \* what the library's get_ticks() returns

\* pygame.event.Event(type, {"key": key}); from tells the event's origin apart
Event(type, key) == [type |-> type, key |-> key, from |-> "player"]
QueueEvent(type, key) == [type |-> type, key |-> key, from |-> "queue"]
BusyQueue == <<QueueEvent(QUIT, 0), QueueEvent(KEYDOWN, 1)>>
RealQueues == {<<>>, BusyQueue}

\* callables
Original(s) == [kind |-> "lib", name |-> s]
Method(self, name) == [kind |-> "method", self |-> self, name |-> name]

NoException == "none"
AlreadyPlaying == "Exception: Already playing"
AlreadyStopped == "Exception: Already stopped"
Ok(w, v) == [w |-> w, ret |-> v, exc |-> NoException]
Raise(w, e) == [w |-> w, ret |-> None, exc |-> e]
Logged(w, entry) == [w EXCEPT !.log = Append(@, entry)]

(* ------------------------ function_intercept --------------------------- *)
\* the closure wrap returned by function_intercept
function_intercept(intercepted_func, intercepting_func) ==
    [kind |-> "wrap", intercepted_func |-> intercepted_func,
     intercepting_func |-> intercepting_func]

(* --------------------------- PyGamePlayer ------------------------------ *)
\* the method start() installs on each entry point
Handler(s) ==
    CASE s = "flip"      -> "_on_screen_update"
      [] s = "update"    -> "_on_screen_update"
      [] s = "event_get" -> "_on_event_get"
      [] s = "Clock"     -> "_on_time_clock"
      [] s = "get_ticks" -> "_get_game_time_ms"

\* __init__: default holds _default_flip ... _default_get_ticks
NewPlayer(pg, desired_fps) ==
    [desired_fps |-> desired_fps, keys_pressed |-> <<>>, last_keys_pressed |-> <<>>,
     playing |-> FALSE, default |-> pg, game_time |-> FZero]

\* faulty variant: start() without its already-playing check
start_unguarded(w, self) ==
    Ok([Logged(w, [op |-> "start", self |-> self]) EXCEPT
           !.obj[self].default = w.pygame,
           !.pygame = [s \in Slots |->
                         function_intercept(w.pygame[s], Method(self, Handler(s)))],
           !.obj[self].playing = TRUE],
       None)

\* faulty variant: start() saves the slots before its already-playing check
start_saves_first(w, self) ==
    IF w.obj[self].playing
    THEN Raise([Logged(w, [op |-> "start", self |-> self]) EXCEPT
                   !.obj[self].default = w.pygame],
               AlreadyPlaying)
    ELSE Ok([Logged(w, [op |-> "start", self |-> self]) EXCEPT
                !.obj[self].default = w.pygame,
                !.pygame = [s \in Slots |->
                              function_intercept(w.pygame[s], Method(self, Handler(s)))],
                !.obj[self].playing = TRUE],
            None)

\* faulty variant: start() that also sets the game timer back to 0.0
start_resets_time(w, self) ==
    IF w.obj[self].playing
    THEN Raise(Logged(w, [op |-> "start", self |-> self]), AlreadyPlaying)
    ELSE Ok([Logged(w, [op |-> "start", self |-> self]) EXCEPT
                !.obj[self].default = w.pygame,
                !.pygame = [s \in Slots |->
                              function_intercept(w.pygame[s], Method(self, Handler(s)))],
                !.obj[self].playing = TRUE,
                !.obj[self].game_time = FZero],
            None)

start(w, self) ==
    IF w.obj[self].playing
    THEN Raise(Logged(w, [op |-> "start", self |-> self]), AlreadyPlaying)
    ELSE Ok([Logged(w, [op |-> "start", self |-> self]) EXCEPT
                !.obj[self].default = w.pygame,
                !.pygame = [s \in Slots |->
                              function_intercept(w.pygame[s], Method(self, Handler(s)))],
                !.obj[self].playing = TRUE],
            None)

\* faulty variant: stop() that does not put pygame.time.get_ticks back
stop_keeps_get_ticks(w, self) ==
    IF ~w.obj[self].playing
    THEN Raise(Logged(w, [op |-> "stop", self |-> self]), AlreadyStopped)
    ELSE Ok([Logged(w, [op |-> "stop", self |-> self]) EXCEPT
                !.pygame = [w.obj[self].default EXCEPT !["get_ticks"] = w.pygame["get_ticks"]],
                !.obj[self].playing = FALSE],
            None)

stop(w, self) ==
    IF ~w.obj[self].playing
    THEN Raise(Logged(w, [op |-> "stop", self |-> self]), AlreadyStopped)
    ELSE Ok([Logged(w, [op |-> "stop", self |-> self]) EXCEPT
                !.pygame = w.obj[self].default,
                !.obj[self].playing = FALSE],
            None)

\* faulty variant: integer division, 1000 / self.desired_fps
get_ms_per_frame_truncated(w, self) == FDiv(1000 \div w.obj[self].desired_fps, 1)

get_ms_per_frame(w, self) == FDiv(1000, w.obj[self].desired_fps)

get_game_time_ms(w, self) == Ok(w, Float(w.obj[self].game_time))

FixedFPSClock(get_seconds_per_frame_func, get_time_ms_func) ==
    [kind |-> "FixedFPSClock", get_ms_per_frame_func |-> get_seconds_per_frame_func,
     get_time_ms_func |-> get_time_ms_func]

on_time_clock(w, self) ==
    Ok(w, FixedFPSClock(Method(self, "_get_ms_per_frame"), Float(w.obj[self].game_time)))

\* get_feedback and get_keys_pressed: env.cb[self] is what the subclass's
\* overrides return at this frame, or raises when the method is the base one
get_feedback(w, self, env) ==
    LET cb  == env.cb[self].feedback
        exc == IF cb.raises THEN "NotImplementedError" ELSE NoException
        w1  == Logged(w, [op |-> "get_feedback", self |-> self,
                          ret |-> cb.val, exc |-> exc])
    IN  IF cb.raises THEN Raise(w1, exc) ELSE Ok(w1, cb.val)

get_keys_pressed(w, self, screen_array, feedback, env) ==
    LET cb  == env.cb[self].keys
        exc == IF cb.raises THEN "NotImplementedError" ELSE NoException
        w1  == Logged(w, [op |-> "get_keys_pressed", self |-> self,
                          screen_array |-> screen_array, feedback |-> feedback,
                          ret |-> cb.val, exc |-> exc])
    IN  IF cb.raises THEN Raise(w1, exc) ELSE Ok(w1, cb.val)

\* faulty variant: the frame handler passes 0, not the feedback it read
on_screen_update_no_feedback(w, self, env) ==
    LET reward == get_feedback(w, self, env)
        keys   == get_keys_pressed(reward.w, self, Surface, 0, env)
    IN  IF reward.exc # NoException THEN reward
        ELSE IF keys.exc # NoException THEN keys
        ELSE Ok([keys.w EXCEPT
                    !.obj[self].last_keys_pressed = w.obj[self].keys_pressed,
                    !.obj[self].keys_pressed = keys.ret,
                    !.obj[self].game_time = FAdd(@, get_ms_per_frame(w, self)),
                    !.frames[self] = @ + 1],
                None)

\* faulty variant: the frame handler does not keep the previous key set
on_screen_update_no_shift(w, self, env) ==
    LET reward == get_feedback(w, self, env)
        keys   == get_keys_pressed(reward.w, self, Surface, reward.ret, env)
    IN  IF reward.exc # NoException THEN reward
        ELSE IF keys.exc # NoException THEN keys
        ELSE Ok([keys.w EXCEPT
                    !.obj[self].keys_pressed = keys.ret,
                    !.obj[self].game_time = FAdd(@, get_ms_per_frame(w, self)),
                    !.frames[self] = @ + 1],
                None)

\* faulty variant: the key sets are shifted before get_keys_pressed is called
on_screen_update_eager(w, self, env) ==
    LET reward  == get_feedback(w, self, env)
        shifted == [reward.w EXCEPT
                       !.obj[self].last_keys_pressed = w.obj[self].keys_pressed]
        keys    == get_keys_pressed(shifted, self, Surface, reward.ret, env)
    IN  IF reward.exc # NoException THEN reward
        ELSE IF keys.exc # NoException THEN keys
        ELSE Ok([keys.w EXCEPT
                    !.obj[self].keys_pressed = keys.ret,
                    !.obj[self].game_time = FAdd(@, get_ms_per_frame(w, self)),
                    !.frames[self] = @ + 1],
                None)

on_screen_update(w, self, env) ==
    LET reward == get_feedback(w, self, env)
        keys   == get_keys_pressed(reward.w, self, Surface, reward.ret, env)
    IN  IF reward.exc # NoException THEN reward
        ELSE IF keys.exc # NoException THEN keys
        ELSE Ok([keys.w EXCEPT
                    !.obj[self].last_keys_pressed = w.obj[self].keys_pressed,
                    !.obj[self].keys_pressed = keys.ret,
                    !.obj[self].game_time = FAdd(@, get_ms_per_frame(w, self)),
                    !.frames[self] = @ + 1],
                None)

InSeq(x, q) == \E i \in 1..Len(q) : q[i] = x

\* faulty variant: the comprehension without its "if x not in those"
KeyEvents_unfiltered(type, these, those) ==
    [i \in 1..Len(these) |-> Event(type, these[i])]

\* [pygame.event.Event(type, {"key": x}) for x in these if x not in those]
KeyEvents(type, these, those) ==
    LET sel == SelectSeq(these, LAMBDA x : ~InSeq(x, those))
    IN  [i \in 1..Len(sel) |-> Event(type, sel[i])]

IsType(type_filter, t) == type_filter.kind = "int" /\ type_filter.v = t

RECURSIVE FilterLoop(_, _, _, _)
\* for type_filter in args: ...
FilterLoop(args, result, key_down_events, key_up_events) ==
    IF args = <<>> THEN result
    ELSE LET type_filter == Head(args)
             next == IF IsType(type_filter, QUIT) THEN result
                     ELSE IF IsType(type_filter, KEYUP) THEN result \o key_up_events
                     ELSE IF IsType(type_filter, KEYDOWN) THEN result \o key_down_events
                     ELSE result
         IN  FilterLoop(Tail(args), next, key_down_events, key_up_events)

\* faulty variant: an iterable of filters is not unpacked
HasIter_never(x) == FALSE

\* hasattr(x, "__iter__")
HasIter(x) == x.kind = "list"

\* faulty variant: the real queue's events are forwarded ahead of the synthesised ones
on_event_get_forwarding(w, self, real_results, args) ==
    LET key_down_events == [i \in 1..Len(w.obj[self].keys_pressed) |->
                               Event(KEYDOWN, w.obj[self].keys_pressed[i])]
    IN  Ok(w, List(real_results.items \o key_down_events))

\* faulty variant: a poll that marks the events it returned as delivered
on_event_get_consuming(w, self, real_results, args) ==
    LET key_down_events == KeyEvents(KEYDOWN, w.obj[self].keys_pressed,
                                     w.obj[self].last_keys_pressed)
        key_up_events   == KeyEvents(KEYUP, w.obj[self].last_keys_pressed,
                                     w.obj[self].keys_pressed)
        filters         == IF HasIter(args[1]) THEN args[1].items ELSE args
        w1              == [w EXCEPT !.obj[self].last_keys_pressed =
                                         w.obj[self].keys_pressed]
    IN  IF args # <<>>
        THEN Ok(w1, List(FilterLoop(filters, <<>>, key_down_events, key_up_events)))
        ELSE Ok(w1, List(key_down_events \o key_up_events))

on_event_get(w, self, real_results, args) ==
    LET key_down_events == KeyEvents(KEYDOWN, w.obj[self].keys_pressed,
                                     w.obj[self].last_keys_pressed)
        key_up_events   == KeyEvents(KEYUP, w.obj[self].last_keys_pressed,
                                     w.obj[self].keys_pressed)
        filters         == IF HasIter(args[1]) THEN args[1].items ELSE args
    IN  IF args # <<>>
        THEN Ok(w, List(FilterLoop(filters, <<>>, key_down_events, key_up_events)))
        ELSE Ok(w, List(key_down_events \o key_up_events))

(* ------------------------------ calls ---------------------------------- *)
\* the library's own entry points
LibCall(name, args, w, env) ==
    LET ret == CASE name = "flip"      -> None
                 [] name = "update"    -> None
                 [] name = "event_get" -> List(env.queue)
                 [] name = "Clock"     -> RealClock
                 [] name = "get_ticks" -> WallTicks
    IN  Ok(Logged(w, [op |-> "lib", name |-> name, args |-> args, ret |-> ret]), ret)

\* a bound method called with positional arguments args (after self); Python
\* raises TypeError when they do not fit the method's parameters
Dispatch(m, args, w, env) ==
    CASE m.name = "_on_screen_update" ->          \* (self, _, *args, **kwargs)
           IF Len(args) >= 1 THEN on_screen_update(w, m.self, env)
           ELSE Raise(w, "TypeError")
      [] m.name = "_on_event_get" ->              \* (self, _, *args, **kwargs)
           IF Len(args) >= 1 THEN on_event_get(w, m.self, Head(args), Tail(args))
           ELSE Raise(w, "TypeError")
      [] m.name = "_on_time_clock" ->             \* (self, _, *args, **kwargs)
           IF Len(args) >= 1 THEN on_time_clock(w, m.self)
           ELSE Raise(w, "TypeError")
      [] m.name = "_get_game_time_ms" ->          \* (self)
           IF Len(args) = 0 THEN get_game_time_ms(w, m.self)
           ELSE Raise(w, "TypeError")
      [] m.name = "_get_ms_per_frame" ->          \* (self)
           IF Len(args) = 0 THEN Ok(w, Float(get_ms_per_frame(w, m.self)))
           ELSE Raise(w, "TypeError")

\* the call log tells when the method's body was entered and what it returned;
\* a call the parameters reject never enters the body
CallMethod(m, args, w, env) ==
    LET entered == [op |-> "method", self |-> m.self, name |-> m.name, args |-> args]
        out     == Dispatch(m, args, Logged(w, entered), env)
    IN  IF out.exc = "TypeError" THEN Raise(w, "TypeError")
        ELSE [out EXCEPT !.w = Logged(@, [op |-> "return", self |-> m.self,
                                         name |-> m.name, ret |-> out.ret,
                                         exc |-> out.exc])]

RECURSIVE Call(_, _, _, _)
\* f(*args) for any value f
Call(f, args, w, env) ==
    CASE f.kind = "lib"    -> LibCall(f.name, args, w, env)
      [] f.kind = "method" -> CallMethod(f, args, w, env)
      [] f.kind = "wrap"   ->
           LET real_results == Call(f.intercepted_func, args, w, env)
           IN  IF real_results.exc # NoException THEN real_results
               ELSE Call(f.intercepting_func, <<real_results.ret>> \o args,
                         real_results.w, env)
      [] OTHER             -> Raise(w, "TypeError")   \* not callable

\* faulty variant: the setter without its "if self._playing == value: return"
set_playing_always(w, self, value) ==
    IF value THEN start(w, self) ELSE stop(w, self)

\* the playing property's setter
set_playing(w, self, value) ==
    IF w.obj[self].playing = value THEN Ok(w, None)
    ELSE IF w.obj[self].playing THEN stop(w, self)
    ELSE start(w, self)

enter(w, self) == start(w, self)

\* faulty variant: __exit__ that stops only a controller that is still playing
exit_if_playing(w, self) ==
    IF w.obj[self].playing THEN stop(w, self) ELSE Ok(w, None)

exit(w, self) == stop(w, self)

\* _FixedFPSClock's methods, called with positional arguments args
\* faulty variant: tick(self) without its optional parameter
tick_strict(clock, args, w, env) ==
    IF Len(args) = 0 THEN Call(clock.get_ms_per_frame_func, <<>>, w, env)
    ELSE Raise(w, "TypeError")

tick(clock, args, w, env) ==
    IF Len(args) <= 1 THEN Call(clock.get_ms_per_frame_func, <<>>, w, env)
    ELSE Raise(w, "TypeError")

tick_busy_loop(clock, args, w, env) ==
    IF Len(args) <= 1 THEN Call(clock.get_ms_per_frame_func, <<>>, w, env)
    ELSE Raise(w, "TypeError")

get_time(clock, w, env) == Call(clock.get_time_ms_func, <<>>, w, env)

get_raw_time(clock, w, env) == Call(clock.get_time_ms_func, <<>>, w, env)

IntValue(n) == [kind |-> "int", v |-> n]

FOne == [hi |-> HiMin, lo |-> 0, e |-> -52]             \* 1.0

\* int(1.0 / x) for a float x >= 1.0: the quotient rounds to 1.0 only when x
\* is 1.0 and lies below 1.0 otherwise, and int() truncates toward zero
IntRecip(x) ==
    CASE x = FOne                   -> 1
      [] x # FOne /\ x.e >= FOne.e  -> 0

get_fps(clock, w, env) ==
    LET ms == Call(clock.get_ms_per_frame_func, <<>>, w, env)
    IN  IF ms.exc # NoException THEN ms
        ELSE Ok(ms.w, IntValue(IntRecip(ms.ret.v)))

(* ------------------------------ state ---------------------------------- *)
VARIABLES
    pygame,     \* the five library slots
    obj,        \* the fields of each controller that has been constructed
    frames,     \* completed frame-handler invocations of each controller
    scopes,     \* the with-blocks the host is inside, innermost last
    raising,    \* an exception is propagating out of the innermost with-block
    clock,      \* the value the host's latest Clock() call returned
    last,       \* the latest operation: its arguments, result and call log
    loop        \* the key events the host's frame loop has been given so far

vars == <<pygame, obj, frames, scopes, raising, clock, last, loop>>

players == DOMAIN obj

World == [pygame |-> pygame, obj |-> obj, frames |-> frames, log |-> <<>>]

Originals == [s \in Slots |-> Original(s)]

\* a frame loop that has not run: no frame is waiting for its poll, and no
\* key has been given an event
NoneDelivered ==
    [polled |-> TRUE, alternating |-> TRUE, lastType |-> [k \in Keys |-> "none"],
     downs |-> [k \in Keys |-> 0], ups |-> [k \in Keys |-> 0]]

\* the controllers ps constructed with a desired_fps of fpss, nothing started
InitWith(ps, fpss) ==
    /\ pygame = Originals
    /\ \E f \in fpss : obj = [c \in ps |-> NewPlayer(Originals, f)]
    /\ frames = [c \in ps |-> 0]
    /\ scopes = <<>>
    /\ raising = FALSE
    /\ clock = None
    /\ last = [op |-> "init", self |-> "", args |-> <<>>, ret |-> None,
               exc |-> NoException, log |-> <<>>]
    /\ loop = NoneDelivered

(* inputs *)
Returns(S) == {[raises |-> FALSE, val |-> v] : v \in S}
Raises == [raises |-> TRUE, val |-> None]
NoCallbacks == [feedback |-> Raises, keys |-> Raises]

\* a subclass that overrides both callbacks
Overridden(fs, ks) == {[feedback |-> f, keys |-> k] : f \in Returns(fs), k \in Returns(ks)}
\* a callback that is not overridden, or fails
Failing(fs) == {NoCallbacks} \cup {[feedback |-> f, keys |-> Raises] : f \in Returns(fs)}

\* what the agents and the real event queue do during one host call
FrameEnvs(cbs) == {[queue |-> <<>>, cb |-> cb] : cb \in [players -> cbs]}
QueueEnvs(qs) == {[queue |-> q, cb |-> [c \in players |-> NoCallbacks]] : q \in qs}
NoEnv == [queue |-> <<>>, cb |-> [c \in players |-> NoCallbacks]]

TypeArg(t) == [kind |-> "int", v |-> t]
FilterSeqs == SeqsUpTo({TypeArg(t) : t \in FilterTypes}, MaxFilters)
\* the positional arguments of a poll: filters one by one, or one iterable of them
PollArgs == FilterSeqs \cup {<<List(fs)>> : fs \in FilterSeqs}

(* ----------------------------- actions --------------------------------- *)
\* an operation that ended as out; an exception either is caught where it
\* was raised or propagates out of the innermost with-block
Commit(op, self, args, out, scopes1) ==
    /\ \A c \in players : out.w.frames[c] <= MaxFrames
    /\ pygame' = out.w.pygame
    /\ obj' = out.w.obj
    /\ frames' = out.w.frames
    /\ scopes' = scopes1
    /\ raising' \in IF out.exc # NoException /\ scopes1 # <<>> THEN {TRUE, FALSE} ELSE {FALSE}
    /\ last' = [op |-> op, self |-> self, args |-> args, ret |-> out.ret,
                exc |-> out.exc, log |-> out.w.log]

Start(c) ==
    /\ ~raising
    /\ \E out \in {start(World, c)} : Commit("start", c, <<>>, out, scopes)
    /\ UNCHANGED <<clock, loop>>

Stop(c) ==
    /\ ~raising
    /\ \E out \in {stop(World, c)} : Commit("stop", c, <<>>, out, scopes)
    /\ UNCHANGED <<clock, loop>>

SetPlaying(c, value) ==
    /\ ~raising
    /\ \E out \in {set_playing(World, c, value)} :
           Commit("set_playing", c, <<value>>, out, scopes)
    /\ UNCHANGED <<clock, loop>>

\* with c: ... ; the block is entered only when __enter__ returns
Enter(c) ==
    /\ ~raising
    /\ Len(scopes) < MaxScopes
    /\ \E out \in {enter(World, c)} :
           Commit("enter", c, <<>>, out,
                  IF out.exc = NoException THEN Append(scopes, c) ELSE scopes)
    /\ UNCHANGED <<clock, loop>>

\* the body of the innermost with-block fails by itself
BodyRaise ==
    /\ ~raising
    /\ scopes # <<>>
    /\ raising' = TRUE
    /\ last' = [op |-> "raise", self |-> "", args |-> <<>>, ret |-> None,
                exc |-> "BodyError", log |-> <<>>]
    /\ UNCHANGED <<pygame, obj, frames, scopes, clock, loop>>

\* leaving the innermost with-block, normally or with an exception in flight:
\* __exit__ returns None, so the exception keeps propagating
Exit ==
    /\ scopes # <<>>
    /\ \E c \in {scopes[Len(scopes)]}, rest \in {SubSeq(scopes, 1, Len(scopes) - 1)} :
         \E out \in {exit(World, c)} :
           /\ pygame' = out.w.pygame
           /\ obj' = out.w.obj
           /\ raising' \in IF (raising \/ out.exc # NoException) /\ rest # <<>>
                           THEN {TRUE, FALSE} ELSE {FALSE}
           /\ scopes' = rest
           /\ last' = [op |-> "exit", self |-> c, args |-> <<raising>>, ret |-> out.ret,
                       exc |-> out.exc, log |-> out.w.log]
    /\ UNCHANGED <<frames, clock, loop>>

\* the host calls one of the five entry points through its slot
Invoke(slot, args, env) ==
    /\ ~raising
    /\ \E out \in {Call(pygame[slot], args, World, env)} :
           /\ Commit(slot, "", args, out, scopes)
           /\ clock' = IF slot = "Clock" /\ out.exc = NoException THEN out.ret ELSE clock

HostCall(slot, args, env) == Invoke(slot, args, env) /\ loop' = loop

Flip(cbs) == \E env \in FrameEnvs(cbs) : HostCall("flip", <<>>, env)

Update(cbs) ==
    \E env \in FrameEnvs(cbs), args \in {<<>>, <<Rect>>} : HostCall("update", args, env)

EventGet(qs, argss) == \E env \in QueueEnvs(qs), args \in argss : HostCall("event_get", args, env)

NewClock == HostCall("Clock", <<>>, NoEnv)

GetTicks == HostCall("get_ticks", <<>>, NoEnv)

\* the host calls a method of the synthetic clock it holds
ClockCall(op, args, result) ==
    /\ ~raising
    /\ clock.kind = "FixedFPSClock"
    /\ \E out \in {result} : Commit(op, "", args, out, scopes)
    /\ UNCHANGED <<clock, loop>>

Tick == \E args \in {<<>>, <<TypeArg(60)>>} : ClockCall("tick", args, tick(clock, args, World, NoEnv))

TickBusyLoop ==
    \E args \in {<<>>, <<TypeArg(60)>>} :
        ClockCall("tick_busy_loop", args, tick_busy_loop(clock, args, World, NoEnv))

GetTime == ClockCall("get_time", <<>>, get_time(clock, World, NoEnv))

GetRawTime == ClockCall("get_raw_time", <<>>, get_raw_time(clock, World, NoEnv))

RECURSIVE Deliver(_, _)
\* the frame loop's record l after it is given events, one by one
Deliver(l, events) ==
    IF events = <<>> THEN l
    ELSE LET ev   == Head(events)
             down == ev.type = KEYDOWN
             turn == IF down THEN l.lastType[ev.key] # KEYDOWN
                     ELSE l.lastType[ev.key] = KEYDOWN
         IN  Deliver([l EXCEPT !.alternating = @ /\ turn,
                               !.lastType[ev.key] = ev.type,
                               !.downs[ev.key] = IF down THEN @ + 1 ELSE @,
                               !.ups[ev.key] = IF down THEN @ ELSE @ + 1],
                     Tail(events))

\* the host's frame loop: a frame through the intercepted flip ...
LoopFrame(cbs) ==
    /\ loop.polled
    /\ pygame["flip"].kind = "wrap"
    /\ \E env \in FrameEnvs(cbs) : Invoke("flip", <<>>, env)
    /\ loop' = [loop EXCEPT !.polled = FALSE]

\* ... and then exactly one poll with no type filter
LoopPoll(qs) ==
    /\ ~loop.polled
    /\ \E env \in QueueEnvs(qs) : Invoke("event_get", <<>>, env)
    /\ loop' = Deliver([loop EXCEPT !.polled = TRUE], last'.ret.items)

GetFps == ClockCall("get_fps", <<>>, get_fps(clock, World, NoEnv))

\* the host assigns the public attribute desired_fps
SetDesiredFps(c, f) ==
    /\ ~raising
    /\ obj' = [obj EXCEPT ![c].desired_fps = f]
    /\ last' = [op |-> "set_desired_fps", self |-> c, args |-> <<f>>, ret |-> None,
                exc |-> NoException, log |-> <<>>]
    /\ UNCHANGED <<pygame, frames, scopes, raising, clock, loop>>

(* ------------- lifecycle and interception: one controller -------------- *)
DefaultFps == 10
OneKey == {<<>>, <<1>>}
FewKeySeqs == {<<>>, <<1>>, <<2>>, <<1, 2>>}
FewCallbacks == Overridden({1}, OneKey) \cup {NoCallbacks}
FewPolls == {<<>>, <<TypeArg(KEYDOWN)>>, <<List(<<TypeArg(KEYUP), TypeArg(QUIT)>>)>>}

Init == InitWith({"A"}, {DefaultFps})

Next ==
    \/ \E c \in players : Start(c)
    \/ \E c \in players : Stop(c)
    \/ \E c \in players, value \in BOOLEAN : SetPlaying(c, value)
    \/ \E c \in players : Enter(c)
    \/ BodyRaise
    \/ Exit
    \/ Flip(FewCallbacks)
    \/ Update(FewCallbacks)
    \/ EventGet(RealQueues, FewPolls)
    \/ NewClock
    \/ GetTicks

Spec == Init /\ [][Next]_vars

(* ------------------- event synthesis: frames and polls ----------------- *)
\* polls without a type filter, any key sequences
NextKeys ==
    \/ \E c \in players : Start(c)
    \/ Flip(Overridden({0}, KeySeqs))
    \/ EventGet(RealQueues, {<<>>})

SpecKeys == Init /\ [][NextKeys]_vars

\* polls with and without type filters
NextPoll ==
    \/ \E c \in players : Start(c)
    \/ Flip(Overridden({0}, FewKeySeqs))
    \/ EventGet({BusyQueue}, PollArgs)

SpecPoll == Init /\ [][NextPoll]_vars

(* ------------------------ game time and clocks ------------------------- *)
InitTime == InitWith({"A"}, FpsValues)

NextTime ==
    \/ \E c \in players : Start(c)
    \/ \E c \in players : Stop(c)
    \/ Flip(FewCallbacks)
    \/ NewClock
    \/ GetTicks
    \/ Tick
    \/ TickBusyLoop
    \/ GetTime
    \/ GetRawTime

SpecTime == InitTime /\ [][NextTime]_vars

(* --------------------- frames and their callbacks ---------------------- *)
FrameCallbacks == Overridden(Feedbacks, FewKeySeqs) \cup Failing(Feedbacks)

NextFrame ==
    \/ \E c \in players : Start(c)
    \/ \E c \in players : Stop(c)
    \/ Flip(FrameCallbacks)
    \/ Update(FrameCallbacks)
    \/ EventGet(RealQueues, FewPolls)

SpecFrame == Init /\ [][NextFrame]_vars

(* ------------------- a frame loop: frame, poll, ... -------------------- *)
\* key sequences without a duplicate
DistinctKeySeqs == {<<>>, <<1>>, <<2>>, <<1, 2>>, <<2, 1>>}

NextLoop ==
    \/ \E c \in players : Start(c)
    \/ LoopFrame(Overridden({0}, DistinctKeySeqs))
    \/ LoopPoll(RealQueues)

SpecLoop == Init /\ [][NextLoop]_vars

(* ------------------ two controllers sharing the slots ------------------ *)
InitTwo == InitWith(Controllers, {DefaultFps})

RECURSIVE Nesting(_)
\* the number of wrappers stacked on the callable f
Nesting(f) == IF f.kind = "wrap" THEN 1 + Nesting(f.intercepted_func) ELSE 0

NextTwo ==
    \/ \E c \in players : Nesting(pygame["flip"]) < MaxNesting /\ Start(c)
    \/ \E c \in players : Stop(c)
    \/ Flip(Overridden({0}, {<<1>>}))
    \/ EventGet({<<>>}, {<<>>})

SpecTwo == InitTwo /\ [][NextTwo]_vars

(* ------------- the synthetic clock and every other operation ----------- *)
ClockFps == {9, 10, 1000}
NoKeys == Overridden({0}, {<<>>}) \cup {NoCallbacks}

NextClock ==
    \/ \E c \in players : Start(c)
    \/ \E c \in players : Stop(c)
    \/ \E c \in players, value \in BOOLEAN : SetPlaying(c, value)
    \/ \E c \in players, f \in ClockFps : SetDesiredFps(c, f)
    \/ Flip(NoKeys)
    \/ Update(NoKeys)
    \/ EventGet({<<>>}, {<<>>})
    \/ NewClock
    \/ GetTicks
    \/ Tick
    \/ TickBusyLoop
    \/ GetTime
    \/ GetRawTime
    \/ GetFps

SpecClock == Init /\ [][NextClock]_vars

(* ======================================================================= *)
(* Properties                                                              *)
(* ======================================================================= *)
Count(log, P(_)) == Cardinality({i \in 1..Len(log) : P(log[i])})
IsStop(entry) == entry.op = "stop"
Range(q) == {q[i] : i \in 1..Len(q)}

\* the slot the latest host call went through holds an intercepted version
Intercepted == last.op \in Slots /\ pygame[last.op].kind = "wrap"

(* ------------------------------- C1 ------------------------------------ *)
\* C1: a start() issued while playing fails with an error, a stop() issued while
\* not playing fails with an error, and every other start()/stop() call
\* succeeds and flips playing.
C1_StartStopAlternate ==
    [][\A c \in players :
          /\ (last'.op = "start" /\ last'.self = c) =>
                IF obj[c].playing
                THEN last'.exc = AlreadyPlaying
                ELSE last'.exc = NoException /\ obj'[c].playing
          /\ (last'.op = "stop" /\ last'.self = c) =>
                IF ~obj[c].playing
                THEN last'.exc = AlreadyStopped
                ELSE last'.exc = NoException /\ ~obj'[c].playing]_vars

\* a start() right after a start() has failed
C1_Witness ==
    last.op = "start" /\ last.exc = AlreadyPlaying /\ obj["A"].playing

(* ------------------------------- C2 ------------------------------------ *)
\* C2: with one controller, while playing is false the five slots are the
\* library originals; while playing is true the five slots hold the intercepted
\* wrappers and the controller's five saved references are the originals.
C2_SlotsFollowPlaying ==
    \A c \in players :
        IF ~obj[c].playing
        THEN pygame = Originals
        ELSE /\ \A s \in Slots :
                   pygame[s] = function_intercept(Original(s), Method(c, Handler(s)))
             /\ obj[c].default = Originals

\* a successful stop() after frames have been played
C2_Witness ==
    last.op = "stop" /\ last.exc = NoException /\ frames["A"] > 0 /\ ~obj["A"].playing

(* ------------------------------- C3 ------------------------------------ *)
\* C3: leaving a with-block calls stop exactly once, whether the body ended
\* normally or raised and whatever the body did; afterwards the five slots
\* hold the originals and playing is false.
C3_ExitStopsOnce ==
    last.op = "exit" =>
        /\ Count(last.log, IsStop) = 1
        /\ \A i \in 1..Len(last.log) : IsStop(last.log[i]) => last.log[i].self = last.self
        /\ pygame = Originals
        /\ ~obj[last.self].playing

\* a with-block left by an exception, its stop() succeeding
C3_Witness ==
    last.op = "exit" /\ last.args = <<TRUE>> /\ last.exc = NoException

(* ------------------------------- C4 ------------------------------------ *)
\* C4: writing playing := v never fails and ends with playing = v; writing the
\* current value changes nothing, writing the other value does exactly what
\* start() (v true) or stop() (v false) does.
C4_PlayingWrite ==
    [][last'.op = "set_playing" =>
          LET c == last'.self
              v == last'.args[1]
          IN  /\ last'.exc = NoException
              /\ obj'[c].playing = v
              /\ obj[c].playing = v => (pygame' = pygame /\ obj' = obj)
              /\ (obj[c].playing # v /\ v) =>
                    (pygame' = start(World, c).w.pygame /\ obj' = start(World, c).w.obj)
              /\ (obj[c].playing # v /\ ~v) =>
                    (pygame' = stop(World, c).w.pygame /\ obj' = stop(World, c).w.obj)]_vars

\* playing := true written while already playing: no start() was attempted
C4_Witness ==
    /\ last.op = "set_playing" /\ last.args = <<TRUE>> /\ last.log = <<>>
    /\ last.exc = NoException /\ obj["A"].playing

(* ------------------------------- C5 ------------------------------------ *)
IsLib(entry) == entry.op = "lib"
IsMethod(entry) == entry.op = "method"
IsReturn(entry) == entry.op = "return"

\* C5: a host call of an intercepted entry point invokes the original exactly
\* once with the same arguments, then the session handler exactly once with
\* the original's result followed by the arguments, and the caller receives
\* the handler's result.
C5_InterceptedCall ==
    Intercepted =>
        LET log == last.log
        IN  /\ Count(log, IsLib) = 1
            /\ Count(log, IsMethod) = 1
            /\ Count(log, IsReturn) = 1
            /\ \A i, j, k \in 1..Len(log) :
                  (IsLib(log[i]) /\ IsMethod(log[j]) /\ IsReturn(log[k])) =>
                      /\ log[i].name = last.op /\ log[i].args = last.args
                      /\ i < j
                      /\ log[j].name = Handler(last.op)
                      /\ log[j].args = <<log[i].ret>> \o last.args
                      /\ last.ret = log[k].ret /\ last.exc = log[k].exc

(* ---------------------------- C6, C7, C8 ------------------------------- *)
RECURSIVE Without(_, _)
\* the elements of q that are not elements of excl, in q's order
Without(q, excl) ==
    IF q = <<>> THEN <<>>
    ELSE (IF Head(q) \in Range(excl) THEN <<>> ELSE <<Head(q)>>) \o Without(Tail(q), excl)

Synth(type, keys) == [i \in 1..Len(keys) |-> [type |-> type, key |-> keys[i], from |-> "player"]]
Downs(c) == Synth(KEYDOWN, Without(obj[c].keys_pressed, obj[c].last_keys_pressed))
Ups(c) == Synth(KEYUP, Without(obj[c].last_keys_pressed, obj[c].keys_pressed))

\* the controller whose handler the intercepted slot calls
Owner == pygame[last.op].intercepting_func.self

\* C6: an intercepted poll with no type filter returns one key-down event per
\* element of current_keys not in previous_keys, in order, then one key-up
\* event per element of previous_keys not in current_keys, in order.
C6_NoFilterPoll ==
    (Intercepted /\ last.op = "event_get" /\ last.args = <<>>) =>
        /\ last.exc = NoException
        /\ last.ret = List(Downs(Owner) \o Ups(Owner))

\* current = [1, 2], previous = [1]: exactly one key-down for 2
C6_Witness ==
    /\ Intercepted /\ last.op = "event_get" /\ last.args = <<>>
    /\ obj["A"].keys_pressed = <<1, 2>> /\ obj["A"].last_keys_pressed = <<1>>
    /\ last.ret = List(<<[type |-> KEYDOWN, key |-> 2, from |-> "player"]>>)

\* the filters of a poll, given one by one or as one iterable
FiltersOf(args) == IF args[1].kind = "list" THEN args[1].items ELSE args

RECURSIVE PerFilter(_, _)
PerFilter(fs, c) ==
    IF fs = <<>> THEN <<>>
    ELSE (CASE Head(fs).v = KEYUP   -> Ups(c)
            [] Head(fs).v = KEYDOWN -> Downs(c)
            [] OTHER                -> <<>>) \o PerFilter(Tail(fs), c)

\* C7: an intercepted poll with type filters returns, per filter in the order
\* given, the key-up events for KEYUP, the key-down events for KEYDOWN and
\* nothing for QUIT or any other type, whether the filters are separate
\* arguments or one iterable.
C7_FilteredPoll ==
    (Intercepted /\ last.op = "event_get" /\ last.args # <<>>) =>
        /\ last.exc = NoException
        /\ last.ret = List(PerFilter(FiltersOf(last.args), Owner))

\* current = [1], previous = [1, 2]: a KEYUP-only poll returns one key-up for 2
C7_Witness ==
    /\ Intercepted /\ last.op = "event_get" /\ last.args = <<TypeArg(KEYUP)>>
    /\ obj["A"].keys_pressed = <<1>> /\ obj["A"].last_keys_pressed = <<1, 2>>
    /\ last.ret = List(<<[type |-> KEYUP, key |-> 2, from |-> "player"]>>)

\* C8: no event an intercepted poll returns is a quit event or comes from the
\* real queue: each is a key-down or key-up event for an element of
\* current_keys or previous_keys.
C8_NeverQuit ==
    (Intercepted /\ last.op = "event_get") =>
        /\ last.exc = NoException
        /\ \A i \in 1..Len(last.ret.items) :
              LET ev == last.ret.items[i]
              IN  /\ ev.type # QUIT
                  /\ ev.type \in {KEYDOWN, KEYUP}
                  /\ ev.from = "player"
                  /\ ev.key \in Range(obj[Owner].keys_pressed)
                                  \cup Range(obj[Owner].last_keys_pressed)

\* a poll whose filters include QUIT while the real queue holds a quit event
C8_Witness ==
    /\ Intercepted /\ last.op = "event_get"
    /\ last.args = <<TypeArg(QUIT), TypeArg(KEYDOWN)>>
    /\ last.log[1].ret = List(BusyQueue)
    /\ last.ret.items # <<>>

(* ------------------------------- C9 ------------------------------------ *)
\* C9 as stated: after N completed frame-handler invocations game_time equals
\* N * 1000 / F exactly, for every positive F.
C9_ExactForEveryFps ==
    \A c \in players : obj[c].game_time = FDiv(frames[c] * 1000, obj[c].desired_fps)

\* n / d (d < 2^15) is a float: d's odd part divides n
ExactQuotient(n, d) == DivRem(n % d, d, 15) = 0

\* C9 amended: when 1000 / F is exactly representable as a float, game_time
\* equals N * 1000 / F exactly after N completed frame-handler invocations.
C9_ExactWhenRepresentable ==
    \A c \in players :
        ExactQuotient(1000, obj[c].desired_fps) =>
            obj[c].game_time = FDiv(frames[c] * 1000, obj[c].desired_fps)

\* three frames at 16 frames per second: 187.5 ms
C9_Witness ==
    /\ obj["A"].desired_fps = 16 /\ frames["A"] = 3
    /\ obj["A"].game_time = FDiv(375, 2)

(* ------------------------------- C10 ----------------------------------- *)
\* C10: get_time() and get_raw_time() of the synthetic clock return the
\* session's game_time at the moment of the call, and do not fail.
C10_ClockTime ==
    last.op \in {"get_time", "get_raw_time"} =>
        /\ last.exc = NoException
        /\ last.ret = Float(obj[clock.get_ms_per_frame_func.self].game_time)

(* ------------------------------- C11 ----------------------------------- *)
\* the controller whose frame interval the host's clock reads
ClockOwner == clock.get_ms_per_frame_func.self

\* C11: get_fps() of the synthetic clock returns desired_fps for every
\* positive integer desired_fps that divides 1000.
C11_GetFps ==
    (last.op = "get_fps" /\ 1000 % obj[ClockOwner].desired_fps = 0) =>
        /\ last.exc = NoException
        /\ last.ret = IntValue(obj[ClockOwner].desired_fps)

(* ------------------------------- C12 ----------------------------------- *)
\* C12: a host call of the intercepted get_ticks returns the session's
\* current game_time and does not fail.
C12_GetTicks ==
    (Intercepted /\ last.op = "get_ticks") =>
        /\ last.exc = NoException
        /\ last.ret = Float(obj[Owner].game_time)

(* ------------------------------- C13 ----------------------------------- *)
\* a <= b for floats that are not negative
FLessEq(a, b) ==
    \/ IsZero(a)
    \/ ~IsZero(b) /\ \/ a.e < b.e
                     \/ a.e = b.e /\ (a.hi < b.hi \/ (a.hi = b.hi /\ a.lo <= b.lo))

\* the step is a completed frame-handler invocation of controller c
CompletedFrame(c) ==
    /\ last'.op \in {"flip", "update"} /\ last'.exc = NoException
    /\ pygame[last'.op].kind = "wrap" /\ pygame[last'.op].intercepting_func.self = c

\* C13: each completed intercepted flip/update adds 1000.0 / desired_fps to
\* game_time, every other operation leaves game_time unchanged, and
\* game_time never decreases, a stop followed by a start included.
C13_GameTimeOnlyInFrames ==
    [][\A c \in players :
          /\ IF CompletedFrame(c)
             THEN obj'[c].game_time =
                      FAdd(obj[c].game_time, FDiv(1000, obj[c].desired_fps))
             ELSE obj'[c].game_time = obj[c].game_time
          /\ FLessEq(obj[c].game_time, obj'[c].game_time)]_vars

\* a start() after frames were played and the controller was stopped
C13_Witness ==
    /\ last.op = "start" /\ last.exc = NoException
    /\ frames["A"] = 2 /\ ~IsZero(obj["A"].game_time)

(* ------------------------------- C15 ----------------------------------- *)
\* C15: tick() and tick_busy_loop() return 1000.0 / desired_fps for the
\* desired_fps the session has at the time of the call, with or without a
\* frame-rate argument, and change nothing of the session.
C15_TickInterval ==
    [][last'.op \in {"tick", "tick_busy_loop"} =>
          /\ last'.exc = NoException
          /\ last'.ret = Float(FDiv(1000, obj[ClockOwner].desired_fps))
          /\ obj' = obj /\ pygame' = pygame]_vars

\* tick(60) after desired_fps was changed from 10 to 9
C15_Witness ==
    /\ last.op = "tick" /\ last.args = <<TypeArg(60)>>
    /\ obj["A"].desired_fps = 9 /\ last.ret = Float(FDiv(1000, 9))

(* ------------------------------- C14 ----------------------------------- *)
IsFeedback(entry) == entry.op = "get_feedback"
IsKeys(entry) == entry.op = "get_keys_pressed"

\* the step is a frame-handler invocation of controller c, completed or not
FrameCall(c) ==
    /\ last'.op \in {"flip", "update"}
    /\ pygame[last'.op].kind = "wrap" /\ pygame[last'.op].intercepting_func.self = c

\* get_keys_pressed was called after get_feedback with the frame and the value
\* get_feedback returned, and a completed invocation shifted the key sets
CallbackOrder(c) ==
    \A i, j \in 1..Len(last'.log) :
        (IsFeedback(last'.log[i]) /\ IsKeys(last'.log[j])) =>
            /\ i < j
            /\ last'.log[j].screen_array = Surface
            /\ last'.log[j].feedback = last'.log[i].ret
            /\ last'.exc = NoException =>
                  /\ obj'[c].last_keys_pressed = obj[c].keys_pressed
                  /\ obj'[c].keys_pressed = last'.log[j].ret

\* C14 as stated: each frame-handler invocation calls get_feedback() exactly
\* once and then get_keys_pressed(frame, feedback) exactly once with the value
\* get_feedback returned; on completion previous_keys is the old current_keys
\* and current_keys is what get_keys_pressed returned.
C14_BothCallbacksEveryFrame ==
    [][\A c \in players :
          FrameCall(c) =>
              /\ Count(last'.log, IsFeedback) = 1
              /\ Count(last'.log, IsKeys) = 1
              /\ CallbackOrder(c)]_vars

\* C14 amended: each frame-handler invocation calls get_feedback() exactly
\* once; when it returns, get_keys_pressed(frame, feedback) is called exactly
\* once with the returned value, and when it fails get_keys_pressed is not
\* called; a completed invocation shifts the key sets as stated.
C14_KeysAfterFeedbackReturns ==
    [][\A c \in players :
          FrameCall(c) =>
              /\ Count(last'.log, IsFeedback) = 1
              /\ \A i \in 1..Len(last'.log) :
                    IsFeedback(last'.log[i]) =>
                        Count(last'.log, IsKeys) =
                            IF last'.log[i].exc = NoException THEN 1 ELSE 0
              /\ last'.exc = NoException => Count(last'.log, IsKeys) = 1
              /\ CallbackOrder(c)]_vars

\* a completed frame: feedback 1 was passed on, keys went from [1] to [1, 2]
C14_Witness ==
    /\ last.op = "flip" /\ last.exc = NoException
    /\ obj["A"].last_keys_pressed = <<1>> /\ obj["A"].keys_pressed = <<1, 2>>
    /\ \E j \in 1..Len(last.log) : IsKeys(last.log[j]) /\ last.log[j].feedback = 1

(* ------------------------------- C16 ----------------------------------- *)
\* C16: when get_feedback or get_keys_pressed fails during a frame-handler
\* invocation, the host's flip/update call fails with that same exception and
\* the key sets, game_time, playing and the five slots are as before the call.
C16_FailedFrameChangesNothing ==
    [][\A c \in players :
          (FrameCall(c) /\ \E i \in 1..Len(last'.log) :
                              /\ IsFeedback(last'.log[i]) \/ IsKeys(last'.log[i])
                              /\ last'.log[i].exc # NoException) =>
              /\ \E i \in 1..Len(last'.log) :
                    /\ IsFeedback(last'.log[i]) \/ IsKeys(last'.log[i])
                    /\ last'.exc = last'.log[i].exc
              /\ last'.exc # NoException
              /\ obj' = obj /\ pygame' = pygame /\ frames' = frames]_vars

\* get_keys_pressed failed after get_feedback returned, keys being held
C16_Witness ==
    /\ last.op = "update" /\ last.exc = "NotImplementedError"
    /\ Count(last.log, IsKeys) = 1
    /\ obj["A"].keys_pressed # <<>> /\ obj["A"].playing

(* ------------------------------- C19 ----------------------------------- *)
\* the key events a poll synthesises from these fields
KeyState(c) == <<obj[c].keys_pressed, obj[c].last_keys_pressed>>

\* C19: an intercepted poll changes no session state; only a frame-handler
\* invocation changes the key sets, so a poll repeated with the same filter
\* arguments and no frame in between returns the same events.
C19_PollReadOnly ==
    [][/\ last'.op = "event_get" =>
             /\ obj' = obj /\ pygame' = pygame /\ frames' = frames
             /\ (last.op = "event_get" /\ Intercepted /\ last'.args = last.args) =>
                    (last'.exc = NoException /\ last'.ret = last.ret)
       /\ \A c \in players :
             (KeyState(c))' # KeyState(c) => (FrameCall(c) /\ last'.exc = NoException)]_vars

\* a poll that returned events which the next poll will return again
C19_Witness ==
    /\ Intercepted /\ last.op = "event_get" /\ last.args = <<>>
    /\ last.ret.items # <<>>
    /\ last.ret = List(Downs("A") \o Ups("A"))

(* ------------------------------- C17 ----------------------------------- *)
RECURSIVE BoundTo(_)
\* the controllers whose handlers a call of f reaches
BoundTo(f) ==
    CASE f.kind = "wrap"   -> BoundTo(f.intercepted_func) \cup BoundTo(f.intercepting_func)
      [] f.kind = "method" -> {f.self}
      [] OTHER             -> {}

\* C17: with two controllers sharing the five slots, whenever both are not
\* playing the slots are the library originals, and no slot reaches a
\* wrapper bound to a stopped controller.
C17_TwoControllers ==
    /\ (\A c \in players : ~obj[c].playing) => pygame = Originals
    /\ \A s \in Slots : \A c \in BoundTo(pygame[s]) : obj[c].playing

(* ------------------------------- C18 ----------------------------------- *)
\* C18: a start() that fails because the controller is playing and a stop()
\* that fails because it is stopped change nothing: playing, the five slots,
\* the saved originals, the key sets and game_time are as before the call.
C18_FailedCallChangesNothing ==
    [][(last'.op \in {"start", "stop"} /\ last'.exc # NoException) =>
          /\ last'.exc = IF last'.op = "start" THEN AlreadyPlaying ELSE AlreadyStopped
          /\ obj' = obj /\ pygame' = pygame /\ frames' = frames]_vars

\* a failed start(): the saved originals are still the library's
C18_Witness ==
    /\ last.op = "start" /\ last.exc = AlreadyPlaying
    /\ obj["A"].default = Originals /\ pygame # Originals /\ frames["A"] > 0

(* ------------------------------- C20 ----------------------------------- *)
\* key k has been given one more key-down than key-up
HeldByEvents(k) == loop.downs[k] = loop.ups[k] + 1

\* C20 as stated: with duplicate-free key sequences and one no-filter poll
\* after each frame, the events given for each key alternate key-down,
\* key-up, ... starting with key-down, and at every point a key has been
\* given one more key-down than key-up exactly when it is in current_keys.
C20_AlternateAtEveryPoint ==
    /\ loop.alternating
    /\ \A c \in players, k \in Keys :
          HeldByEvents(k) <=> k \in Range(obj[c].keys_pressed)

\* C20 amended: the events given for each key alternate, starting with
\* key-down; once a frame's poll has been made a key has been given one more
\* key-down than key-up exactly when it is in current_keys, and between a
\* frame and its poll exactly when it is in previous_keys.
C20_AlternateAfterEachPoll ==
    /\ loop.alternating
    /\ \A c \in players, k \in Keys :
          /\ loop.downs[k] - loop.ups[k] \in {0, 1}
          /\ HeldByEvents(k) <=>
                k \in Range(IF loop.polled THEN obj[c].keys_pressed
                            ELSE obj[c].last_keys_pressed)

\* key 1 was given key-down, key-up, key-down over three frames
C20_Witness ==
    /\ loop.polled /\ loop.downs[1] = 2 /\ loop.ups[1] = 1
    /\ frames["A"] = 3 /\ last.op = "event_get"

====
